---- MODULE Spec2Model ----
(***************************************************************************)
(* SimpleMarket (contracts/SimpleMarket.sol): the listing table, the       *)
(* counter, the ether balances and the event log, driven by addProduct and *)
(* buyProduct.                                                             *)
(*                                                                         *)
(* Execution model.  A call is atomic on the EVM: when it reverts, every   *)
(* change made since the call was entered (storage, balances, logs) is     *)
(* undone.  buyProduct makes two external calls, the two .transfer()s; the *)
(* recipient's code runs inside each of them and is arbitrary: it may      *)
(* return, revert, or call back into the contract.  The model keeps the    *)
(* call stack of the buyProduct activations that are suspended inside a    *)
(* transfer, each with the state to restore when it reverts.  The gas      *)
(* stipend of .transfer() is not modelled: what the recipient can afford   *)
(* depends on the gas schedule, so the recipient is given every behaviour. *)
(* Gas fees are not modelled either.                                       *)
(***************************************************************************)
EXTENDS Integers, Sequences, FiniteSets, TLC

\* ---------------------------------------------------------------- bounds
MaxProducts == 2      \* addProduct is disabled once productCount reaches it
MaxDepth    == 2      \* buyProduct activations suspended inside a transfer at a time
MaxAttempts == 2      \* transactions calling buyProduct in the race scenario
MaxPrice    == 1      \* prices offered to addProduct are 0..MaxPrice
InitBalance == 2      \* ether each account starts with
MaxPurchases == 3     \* purchase attempts started from the product list

\* ------------------------------------------------------------- the world
Accounts    == {"seller", "buyer", "other"}
MARKET      == "market"          \* address(this)
ZeroAddress == "0x0"
\* the (_name, _description) arguments offered to addProduct: strings are sequences
\* of characters; an empty name, a name with a description, a blank name without one
Texts       == {[name |-> <<>>,    description |-> <<"d">>],
                [name |-> <<"a">>, description |-> <<"d">>],
                [name |-> <<" ">>, description |-> <<>>]}
Prices      == 0 .. MaxPrice
Ids         == 0 .. (MaxProducts + 1)

\* failure kinds: the revert reasons of the contract
InvalidName         == "Product name cannot be empty"
InvalidPrice        == "Product price must be greater than 0"
NotFound            == "Product does not exist"
InsufficientPayment == "Insufficient payment"
AlreadySold         == "Product already sold"
SelfPurchase        == "Cannot buy your own product"
TransferFailed      == "transfer reverted"
OK                  == "ok"
ValidationFailures  == {NotFound, InsufficientPayment, AlreadySold, SelfPurchase}
InvalidInput        == {InvalidName, InvalidPrice}

VARIABLES
  products,      \* mapping(uint256 => Product)
  productCount,  \* uint256
  balance,       \* ether held by each account and by the contract
  events,        \* the log: ProductAdded / ProductSold records, in emission order
  paid,          \* history: paid[i] = transfers of the price of listing i to its seller
  sales,         \* history: sales[i] = buyProduct(i) activations that returned normally
  stack,         \* buyProduct activations suspended inside a transfer, outermost first
  lastResult,    \* history: the call that completed in the last step, if one did
  race,          \* history: outcomes of the buyProduct transactions (race scenario only)
  view,          \* the value the last call of a view function returned to its caller
  list,          \* the ProductList component: its props, its state, its pending sends
  form,          \* the AddProduct component: its state and its pending send
  app            \* the App component: its state and its pending asynchronous calls

contractVars == <<products, productCount, balance, events, paid, sales, stack,
                  lastResult, race, view>>

vars == <<products, productCount, balance, events, paid, sales, stack, lastResult, race,
          view, list, form, app>>

\* a component of the browser client that is not part of the scenario
Unmounted == [mounted |-> FALSE]

\* struct Product, and the value an unset mapping slot reads as
Product(id, name, description, price, seller, sold) ==
  [id |-> id, name |-> name, description |-> description,
   price |-> price, seller |-> seller, sold |-> sold]

ZeroProduct == Product(0, <<>>, <<>>, 0, ZeroAddress, FALSE)

\* everything a revert restores (paid and sales are counted per committed effect)
World ==
  [products |-> products, productCount |-> productCount, balance |-> balance,
   events |-> events, paid |-> paid, sales |-> sales]

\* ------------------------------------------------------------ view functions
\* each gives the revert reason or OK, and the value returned
Panic == "panic"     \* an array index out of bounds

\* (the name and the description are returned in each other's place)
GetProductSwapsTexts(w, _id) ==
  IF ~(_id > 0 /\ _id <= w.productCount)
  THEN [outcome |-> NotFound, value |-> <<>>]
  ELSE LET product == w.products[_id]
       IN  [outcome |-> OK,
            value |-> <<product.id, product.description, product.name, product.price,
                        product.seller, product.sold>>]

\* (the require accepts id 0)
GetProductAcceptsZero(w, _id) ==
  IF ~(_id <= w.productCount)
  THEN [outcome |-> NotFound, value |-> <<>>]
  ELSE LET product == w.products[_id]
       IN  [outcome |-> OK,
            value |-> <<product.id, product.name, product.description, product.price,
                        product.seller, product.sold>>]

\* getProduct(_id): the revert reason, or the six returned values in order
GetProduct(w, _id) ==
  IF ~(_id > 0 /\ _id <= w.productCount)
  THEN [outcome |-> NotFound, value |-> <<>>]
  ELSE LET product == w.products[_id]
       IN  [outcome |-> OK,
            value |-> <<product.id, product.name, product.description, product.price,
                        product.seller, product.sold>>]

\* the loop of getAllProducts from counter value i on: allProducts[i - 1] = products[i].
\* Solidity arrays are indexed from 0 and the sequence from 1, so index i - 1 is
\* position (i - 1) + 1; an index outside the array panics
RECURSIVE CopyProducts(_, _, _)
CopyProducts(w, allProducts, i) ==
  IF ~(i <= w.productCount) THEN [outcome |-> OK, value |-> allProducts]
  ELSE IF ~(i - 1 >= 0 /\ i - 1 < Len(allProducts))
       THEN [outcome |-> Panic, value |-> <<>>]
       ELSE CopyProducts(w, [allProducts EXCEPT ![(i - 1) + 1] = w.products[i]], i + 1)

\* (the array is allocated one element short)
GetAllProductsShortArray(w) ==
  LET size == IF w.productCount = 0 THEN 0 ELSE w.productCount - 1
  IN  CopyProducts(w, [k \in 1 .. size |-> ZeroProduct], 1)

\* getAllProducts(): a new array of productCount zero elements, filled by the loop
GetAllProducts(w) ==
  CopyProducts(w, [k \in 1 .. w.productCount |-> ZeroProduct], 1)

\* (the number of unsold listings is returned)
GetTotalProductsUnsold(w) ==
  [outcome |-> OK,
   value |-> Cardinality({i \in 1 .. w.productCount : ~w.products[i].sold})]

\* getTotalProducts()
GetTotalProducts(w) == [outcome |-> OK, value |-> w.productCount]

\* (a listing is reported available whether or not it is sold)
IsProductAvailableIgnoresSold(w, _id) ==
  IF _id = 0 \/ _id > w.productCount THEN [outcome |-> OK, value |-> FALSE]
  ELSE [outcome |-> OK, value |-> TRUE]

\* isProductAvailable(_id)
IsProductAvailable(w, _id) ==
  IF _id = 0 \/ _id > w.productCount THEN [outcome |-> OK, value |-> FALSE]
  ELSE [outcome |-> OK, value |-> ~w.products[_id].sold]

\* (a view function that clears the log)
AfterViewClearsLog(w) == [w EXCEPT !.events = <<>>]

\* the state a view function leaves: it is declared view, so it writes no storage,
\* sends no ether and emits no event
AfterView(w) == w

NoView == [op |-> "none"]

\* (a returned array that follows the listing table)
RetainedIsLive(v, w) ==
  IF v.op = "getAllProducts" THEN [v EXCEPT !.result = GetAllProducts(w)] ELSE v

\* a value returned to a caller is the caller's copy (Product[] memory): a later
\* change of the state to w leaves it as it is.  stale records that the state has
\* changed since the value was returned.
Retained(v, w) ==
  IF v.op = "none" \/ w = World THEN v ELSE [v EXCEPT !.stale = TRUE]

\* ------------------------------------------------------------ state changes
Store(w) ==
  /\ products' = w.products
  /\ productCount' = w.productCount
  /\ balance' = w.balance
  /\ events' = w.events
  /\ paid' = w.paid
  /\ sales' = w.sales
  /\ UNCHANGED <<list, form, app>>

SetWorld(w) ==
  /\ Store(w)
  /\ view' = Retained(view, w)

NoResult == [op |-> "none"]

\* (ether is credited without being debited)
PayWithoutDebit(w, from, to, amount) ==
  IF from = to THEN w
  ELSE [w EXCEPT !.balance[to] = @ + amount]

\* ether moves from one account to another
Pay(w, from, to, amount) ==
  IF from = to THEN w
  ELSE [w EXCEPT !.balance[from] = @ - amount, !.balance[to] = @ + amount]

\* (a revert that restores storage and logs but leaves the ether where it is)
RevertKeepsBalance(pre, cur) == [pre EXCEPT !.balance = cur.balance]

\* (a revert that restores everything but the listing table)
RevertKeepsProducts(pre, cur) == [pre EXCEPT !.products = cur.products]

\* (a revert that restores everything but the listing counter)
RevertKeepsCounter(pre, cur) == [pre EXCEPT !.productCount = cur.productCount]

\* a reverting call leaves the state it was entered in
Revert(pre, cur) == pre

\* (the counter starts at 1)
InitCounterOne ==
  /\ products = [i \in Ids |-> ZeroProduct]
  /\ productCount = 1
  /\ balance = [a \in Accounts \cup {MARKET} |-> IF a = MARKET THEN 0 ELSE InitBalance]
  /\ events = <<>>
  /\ paid = [i \in Ids |-> 0]
  /\ sales = [i \in Ids |-> 0]
  /\ stack = <<>>
  /\ lastResult = NoResult
  /\ race = [on |-> FALSE, log |-> <<>>]
  /\ view = NoView
  /\ list = Unmounted /\ form = Unmounted /\ app = Unmounted

\* the contract after deployment: productCount = 0 and every mapping slot reads zero
Init ==
  /\ products = [i \in Ids |-> ZeroProduct]
  /\ productCount = 0
  /\ balance = [a \in Accounts \cup {MARKET} |-> IF a = MARKET THEN 0 ELSE InitBalance]
  /\ events = <<>>
  /\ paid = [i \in Ids |-> 0]
  /\ sales = [i \in Ids |-> 0]
  /\ stack = <<>>
  /\ lastResult = NoResult
  /\ race = [on |-> FALSE, log |-> <<>>]
  /\ view = NoView
  /\ list = Unmounted /\ form = Unmounted /\ app = Unmounted

\* a call made while activations are suspended runs inside their transfers
MarkReentered(s) == [k \in 1 .. Len(s) |-> [s[k] EXCEPT !.reentered = TRUE]]

\* ------------------------------------------------------------ addProduct
\* (the requires without the price check)
AddProductRequireNoPriceCheck(_name, _price) ==
  IF ~(Len(_name) > 0) THEN InvalidName
  ELSE OK

\* (the name is trimmed of blanks before its length is checked)
AddProductRequireTrims(_name, _price) ==
  IF ~(Len(SelectSeq(_name, LAMBDA c : c # " ")) > 0) THEN InvalidName
  ELSE IF ~(_price > 0) THEN InvalidPrice
  ELSE OK

\* the two require statements of addProduct, in order
AddProductRequire(_name, _price) ==
  IF ~(Len(_name) > 0) THEN InvalidName
  ELSE IF ~(_price > 0) THEN InvalidPrice
  ELSE OK

NewProduct(count, _name, _description, _price, sender) ==
  Product(count, _name, _description, _price, sender, FALSE)

ProductAdded(id, name, description, price, seller) ==
  [event |-> "ProductAdded", id |-> id, name |-> name, description |-> description,
   price |-> price, seller |-> seller]

\* (the listing is stored before the counter is incremented)
AddProductBodyStoreFirst(w, sender, _name, _description, _price) ==
  LET count == w.productCount
  IN  [w EXCEPT !.products[count] = NewProduct(count, _name, _description, _price, sender),
                !.productCount = count + 1,
                !.events = Append(@, ProductAdded(count, _name, _description, _price, sender))]

\* (the counter is not incremented)
AddProductBodyNoIncrement(w, sender, _name, _description, _price) ==
  LET count == w.productCount + 1
  IN  [w EXCEPT !.products[count] = NewProduct(count, _name, _description, _price, sender),
                !.events = Append(@, ProductAdded(count, _name, _description, _price, sender))]

AddProductBody(w, sender, _name, _description, _price) ==
  LET count == w.productCount + 1
  IN  [w EXCEPT !.productCount = count,
                !.products[count] = NewProduct(count, _name, _description, _price, sender),
                !.events = Append(@, ProductAdded(count, _name, _description, _price, sender))]

\* (addProduct declared with returns (uint256) and returning the new id)
AddProductReturnsId(w) == <<w.productCount>>

\* what addProduct hands back to its caller: the function declares no return value
AddProductReturn(w) == <<>>

AddProduct(sender, _name, _description, _price) ==
  /\ productCount < MaxProducts
  /\ LET pre == World
         err == AddProductRequire(_name, _price)
         post == IF err = OK
                 THEN AddProductBody(pre, sender, _name, _description, _price)
                 ELSE Revert(pre, pre)
     IN  /\ SetWorld(post)
         /\ stack' = MarkReentered(stack)
         /\ lastResult' = [op |-> "addProduct", outcome |-> err, caller |-> sender,
                           name |-> _name, description |-> _description, price |-> _price,
                           returned |-> IF err = OK THEN AddProductReturn(post) ELSE <<>>,
                           pre |-> pre]
         /\ UNCHANGED race

\* ------------------------------------------------------------ buyProduct
Values == 0 .. (MaxPrice + 1)      \* msg.value offered to buyProduct

\* (the requires without the payment check)
BuyProductRequireNoPaymentCheck(w, sender, _id, value) ==
  LET product == w.products[_id]
  IN  IF ~(_id > 0 /\ _id <= w.productCount) THEN NotFound
      ELSE IF ~(~product.sold) THEN AlreadySold
      ELSE IF ~(product.seller # sender) THEN SelfPurchase
      ELSE OK

\* (the requires with the sold check moved after the seller check)
BuyProductRequireSoldLast(w, sender, _id, value) ==
  LET product == w.products[_id]
  IN  IF ~(_id > 0 /\ _id <= w.productCount) THEN NotFound
      ELSE IF ~(value >= product.price) THEN InsufficientPayment
      ELSE IF ~(product.seller # sender) THEN SelfPurchase
      ELSE IF ~(~product.sold) THEN AlreadySold
      ELSE OK

\* (the requires without the sold check)
BuyProductRequireNoSoldCheck(w, sender, _id, value) ==
  LET product == w.products[_id]
  IN  IF ~(_id > 0 /\ _id <= w.productCount) THEN NotFound
      ELSE IF ~(value >= product.price) THEN InsufficientPayment
      ELSE IF ~(product.seller # sender) THEN SelfPurchase
      ELSE OK

\* (the requires without the seller check)
BuyProductRequireNoSelfCheck(w, sender, _id, value) ==
  LET product == w.products[_id]
  IN  IF ~(_id > 0 /\ _id <= w.productCount) THEN NotFound
      ELSE IF ~(value >= product.price) THEN InsufficientPayment
      ELSE IF ~(~product.sold) THEN AlreadySold
      ELSE OK

\* (the requires with the sold check moved before the payment check)
BuyProductRequireSoldFirst(w, sender, _id, value) ==
  LET product == w.products[_id]
  IN  IF ~(_id > 0 /\ _id <= w.productCount) THEN NotFound
      ELSE IF ~(~product.sold) THEN AlreadySold
      ELSE IF ~(value >= product.price) THEN InsufficientPayment
      ELSE IF ~(product.seller # sender) THEN SelfPurchase
      ELSE OK

\* the four require statements, in the order the code evaluates them
BuyProductRequire(w, sender, _id, value) ==
  LET product == w.products[_id]
  IN  IF ~(_id > 0 /\ _id <= w.productCount) THEN NotFound
      ELSE IF ~(value >= product.price) THEN InsufficientPayment
      ELSE IF ~(~product.sold) THEN AlreadySold
      ELSE IF ~(product.seller # sender) THEN SelfPurchase
      ELSE OK

\* (the flag is set on the newest listing instead of the one bought)
MarkSoldLast(w, _id) == [w EXCEPT !.products[w.productCount].sold = TRUE]

\* (the listing is replaced by an empty sold one)
MarkSoldClearsListing(w, _id) ==
  [w EXCEPT !.products[_id] = [ZeroProduct EXCEPT !.id = _id, !.sold = TRUE]]

\* (the flag is not set before the transfers)
MarkSoldMissing(w, _id) == w

\* product.sold = true
MarkSold(w, _id) == [w EXCEPT !.products[_id].sold = TRUE]

\* (the excess is not returned)
RefundNothing(value, price) == 0

\* the amounts of the two transfers
SellerAmount(value, price) == price
RefundAmount(value, price) == value - price

\* address.transfer(amount) up to the point where the recipient's code runs;
\* it cannot start when the contract holds less than amount
CanTransfer(w, amount) == w.balance[MARKET] >= amount

\* (the event with the seller and the buyer in each other's place)
ProductSoldSwapsParties(id, name, price, seller, buyer) ==
  [event |-> "ProductSold", id |-> id, name |-> name, price |-> price,
   seller |-> buyer, buyer |-> seller]

\* emit ProductSold(_id, product.name, product.price, product.seller, msg.sender)
ProductSold(id, name, price, seller, buyer) ==
  [event |-> "ProductSold", id |-> id, name |-> name, price |-> price,
   seller |-> seller, buyer |-> buyer]

Top == stack[Len(stack)]
Pop(s) == SubSeq(s, 1, Len(s) - 1)

\* the result of an activation that got past the requires
BuyResult(outcome, f, failedAt) ==
  [op |-> "buyProduct", outcome |-> outcome, failedAt |-> failedAt, pre |-> f.snap,
   caller |-> f.caller, id |-> f.id, value |-> f.value, sent |-> f.sent,
   reentered |-> f.reentered]

\* the result of a call a require rejected: the state it was made in and, instead of
\* its arguments, what was true of them: the listing exists, the value covers its
\* price, it was sold, the caller is its seller, the call was made from inside a
\* transfer of a purchase of the same listing
Rejected(outcome, pre, sender, _id, value) ==
  LET found == _id \in 1 .. pre.productCount
      product == pre.products[_id]
  IN  [op |-> "buyProduct", outcome |-> outcome, failedAt |-> "require", pre |-> pre,
       found |-> found,
       enough |-> found => value >= product.price,
       wasSold |-> found /\ product.sold,
       self |-> found /\ product.seller = sender,
       inside |-> \E k \in 1 .. Len(stack) : stack[k].id = _id]

\* the race scenario records the outcome of each transaction that calls buyProduct
Record(top, entry) ==
  race' = IF race.on /\ top THEN [race EXCEPT !.log = Append(@, entry)] ELSE race

\* a buyProduct call is entered: msg.value arrives, the requires run, the listing
\* is marked sold and the payment to the seller is started
BuyProduct(sender, _id, value) ==
  /\ value <= balance[sender]
  /\ BuyProductRequire(World, sender, _id, value) = OK => Len(stack) < MaxDepth
  /\ LET pre == World
         w0 == Pay(pre, sender, MARKET, value)
         err == BuyProductRequire(w0, sender, _id, value)
         product == w0.products[_id]
         amount == SellerAmount(value, product.price)
         f == [caller |-> sender, id |-> _id, value |-> value,
               pc |-> "seller", snap |-> pre, reentered |-> FALSE, sent |-> <<>>]
         rejected == Rejected(err, pre, sender, _id, value)
     IN  IF err # OK
         THEN /\ SetWorld(Revert(pre, w0))
              /\ stack' = MarkReentered(stack)
              /\ lastResult' = rejected
              /\ Record(stack = <<>>, [id |-> _id, outcome |-> err,
                                       enough |-> rejected.enough, self |-> rejected.self])
         ELSE LET w1 == MarkSold(w0, _id)
              IN  IF ~CanTransfer(w1, amount)
                  THEN /\ SetWorld(Revert(pre, w1))
                       /\ stack' = MarkReentered(stack)
                       /\ lastResult' = BuyResult(TransferFailed, f, "seller")
                       /\ Record(stack = <<>>, [id |-> _id, outcome |-> TransferFailed,
                                                enough |-> TRUE, self |-> FALSE])
                  ELSE /\ SetWorld([Pay(w1, MARKET, product.seller, amount)
                                      EXCEPT !.paid[_id] = @ + 1])
                       /\ stack' = Append(MarkReentered(stack),
                              [f EXCEPT !.sent = <<[to |-> product.seller, amount |-> amount]>>])
                       /\ lastResult' = NoResult
                       /\ UNCHANGED race

\* the recipient of the transfer in progress returns normally; buyProduct goes on
\* to the refund, or to the emit and the end of the function
TransferReturns ==
  /\ stack # <<>>
  /\ LET f == Top
         w == World
         product == w.products[f.id]
         refund == RefundAmount(f.value, product.price)
         done(g) ==
           /\ SetWorld([w EXCEPT !.events = Append(@, ProductSold(g.id, product.name,
                                       product.price, product.seller, g.caller)),
                                 !.sales[g.id] = @ + 1])
           /\ stack' = Pop(stack)
           /\ lastResult' = BuyResult(OK, g, "")
           /\ Record(Len(stack) = 1, [id |-> g.id, outcome |-> OK,
                                      enough |-> TRUE, self |-> FALSE])
     IN  IF f.pc = "seller" /\ f.value > product.price
         THEN IF ~CanTransfer(w, refund)
              THEN /\ SetWorld(Revert(f.snap, w))
                   /\ stack' = Pop(stack)
                   /\ lastResult' = BuyResult(TransferFailed, f, "refund")
                   /\ Record(Len(stack) = 1, [id |-> f.id, outcome |-> TransferFailed,
                                              enough |-> TRUE, self |-> FALSE])
              ELSE /\ SetWorld(Pay(w, MARKET, f.caller, refund))
                   /\ stack' = [stack EXCEPT ![Len(stack)].pc = "refund",
                                  ![Len(stack)].sent = Append(@, [to |-> f.caller, amount |-> refund])]
                   /\ lastResult' = NoResult
                   /\ UNCHANGED race
         ELSE done(f)

\* the recipient of the transfer in progress reverts: transfer() reverts, and with
\* it the buyProduct activation that made it
TransferReverts ==
  /\ stack # <<>>
  /\ SetWorld(Revert(Top.snap, World))
  /\ stack' = Pop(stack)
  /\ lastResult' = BuyResult(TransferFailed, Top, Top.pc)
  /\ Record(Len(stack) = 1, [id |-> Top.id, outcome |-> TransferFailed,
                             enough |-> TRUE, self |-> FALSE])

\* ------------------------------------------------------------ calls of view functions
\* a call of a view function, from an account between transactions or from the
\* recipient's code inside a transfer: the caller gets the result
Returned(op, arg, result) ==
  /\ Store(AfterView(World))
  /\ view' = [op |-> op, arg |-> arg, result |-> result, stale |-> FALSE]
  /\ UNCHANGED <<stack, lastResult, race>>

CallGetProduct(_id) == Returned("getProduct", _id, GetProduct(World, _id))

CallGetAllProducts == Returned("getAllProducts", 0, GetAllProducts(World))

CallGetTotalProducts == Returned("getTotalProducts", 0, GetTotalProducts(World))

CallIsProductAvailable(_id) ==
  Returned("isProductAvailable", _id, IsProductAvailable(World, _id))

Next ==
  \/ \E a \in Accounts, t \in Texts, p \in Prices :
        AddProduct(a, t.name, t.description, p)
  \/ \E a \in Accounts, i \in Ids, v \in Values : BuyProduct(a, i, v)
  \/ TransferReturns
  \/ TransferReverts

Spec == Init /\ [][Next]_vars

\* The race scenario: the same contract, where up to MaxAttempts transactions call
\* buyProduct on one listing, chosen by the first of them, and the outcome of each is
\* recorded.  Transactions are serial on the chain, so the next one is submitted when
\* the one before has completed; any caller with any value may come first.  Listings
\* are created before the first attempt.
InitRace ==
  /\ products = [i \in Ids |-> ZeroProduct]
  /\ productCount = 0
  /\ balance = [a \in Accounts \cup {MARKET} |-> IF a = MARKET THEN 0 ELSE InitBalance]
  /\ events = <<>>
  /\ paid = [i \in Ids |-> 0]
  /\ sales = [i \in Ids |-> 0]
  /\ stack = <<>>
  /\ lastResult = NoResult
  /\ race = [on |-> TRUE, log |-> <<>>]
  /\ view = NoView
  /\ list = Unmounted /\ form = Unmounted /\ app = Unmounted

NextRace ==
  \/ \E a \in Accounts, t \in Texts, p \in Prices :
        /\ race.log = <<>> /\ stack = <<>>
        /\ AddProduct(a, t.name, t.description, p)
  \/ \E a \in Accounts, i \in Ids, v \in Values :
        /\ \/ stack # <<>>
           \/ /\ Len(race.log) < MaxAttempts
              /\ i \in 1 .. productCount
              /\ race.log # <<>> => i = race.log[1].id
        /\ BuyProduct(a, i, v)
  \/ TransferReturns
  \/ TransferReverts

SpecRace == InitRace /\ [][NextRace]_vars

\* The contract with its view functions called at any point, inside transfers
\* included.  What they return does not depend on who changed the state, so one
\* account lists and one buys.
NextViews ==
  \/ \E t \in Texts, p \in Prices : AddProduct("seller", t.name, t.description, p)
  \/ \E i \in Ids, v \in Values : BuyProduct("buyer", i, v)
  \/ TransferReturns
  \/ TransferReverts
  \/ \E i \in Ids : CallGetProduct(i)
  \/ CallGetAllProducts
  \/ CallGetTotalProducts
  \/ \E i \in Ids : CallIsProductAvailable(i)

SpecViews == Init /\ [][NextViews]_vars

\* ============================================================ the client
\* React components.  A component's state changes by its event handlers and by
\* the continuations of its pending promises, each of which runs to its next await
\* without interruption; pending promises settle in any order.
\* null: in a place that holds a string or an object, and in a place that holds a
\* product id (ids are >= 1)
Null   == <<>>
NullId == 0
ContractInstance == <<"SimpleMarket">>    \* what getContract() resolves to

\* ------------------------------------------------------------ ProductList / ProductCard
ShownIds         == 1 .. 2                         \* the products on display
ConnectedAccount == <<"a", "b">>                   \* the wallet's address, a string
ShownSellers     == {<<"A", "b">>, <<"c", "d">>}   \* the same address in another case; another

\* String.prototype.toLowerCase over the characters in use
ToLowerCase(str) ==
  [k \in 1 .. Len(str) |->
     CASE str[k] = "A" -> "a"
       [] str[k] = "B" -> "b"
       [] OTHER -> str[k]]

\* the products prop: product i with its price, in any state of sale, of any seller
Snapshots ==
  {f \in [ShownIds -> [id : ShownIds, price : ShownIds, seller : ShownSellers,
                        sold : BOOLEAN]] :
     \A i \in ShownIds : f[i].id = i /\ f[i].price = i}

\* err.message of a rejected send, as the phrases it contains: the wallet's refusal,
\* a revert with its reason, anything else
RejectMessages ==
  {<<"User denied">>, <<"execution reverted", AlreadySold>>, <<"timeout">>}

\* String.prototype.includes
Includes(message, phrase) == \E k \in 1 .. Len(message) : message[k] = phrase

\* the catch block of handlePurchase: the message shown for a failure
PurchaseErrorMessage(message) ==
  IF Includes(message, "User denied") THEN "Transaction cancelled by user"
  ELSE IF Includes(message, "insufficient funds") THEN "Insufficient ETH balance"
  ELSE IF Includes(message, AlreadySold) THEN "Product already sold"
  ELSE IF Includes(message, SelfPurchase) THEN "Cannot buy your own product"
  ELSE IF Includes(message, InsufficientPayment) THEN "Insufficient payment amount"
  ELSE IF Includes(message, NotFound) THEN "Product does not exist"
  ELSE "Purchase failed"

\* ProductCard.isCurrentUserSeller: account?.toLowerCase() is undefined without an
\* account
IsCurrentUserSeller(product, account) ==
  IF account = Null THEN FALSE
  ELSE ToLowerCase(product.seller) = ToLowerCase(account)

\* ProductList.categorizeProducts
CategorizeProducts(shown, account) ==
  [available  |-> SelectSeq(shown, LAMBDA product : ~product.sold),
   sold       |-> SelectSeq(shown, LAMBDA product : product.sold),
   myProducts |-> SelectSeq(shown, LAMBDA product :
                              IsCurrentUserSeller(product, account))]

\* the cards ProductList renders, each with the props it is given
Cards(l) ==
  LET c == CategorizeProducts(l.products, l.account)
  IN  {[product |-> c.available[k], purchasing |-> l.purchasingId = c.available[k].id,
        canPurchase |-> TRUE, isOwner |-> FALSE, isSold |-> FALSE] :
          k \in 1 .. Len(c.available)}
      \cup
      {[product |-> c.myProducts[k], purchasing |-> FALSE,
        canPurchase |-> FALSE, isOwner |-> TRUE, isSold |-> FALSE] :
          k \in 1 .. Len(c.myProducts)}
      \cup
      {[product |-> c.sold[k], purchasing |-> FALSE,
        canPurchase |-> FALSE, isOwner |-> FALSE, isSold |-> TRUE] :
          k \in 1 .. Len(c.sold)}

\* ProductCard.renderActions: what the card shows in its actions area
RenderActions(card, account) ==
  IF card.isSold \/ card.product.sold THEN "sold"
  ELSE IF card.isOwner \/ IsCurrentUserSeller(card.product, account) THEN "owner"
  ELSE IF card.canPurchase
       THEN IF card.purchasing THEN "buy disabled" ELSE "buy"
       ELSE "none"

\* ProductCard.handleBuyClick: the condition under which onPurchase is called
HandleBuyClick(card) == card.canPurchase /\ ~card.purchasing

\* (finally does not reset purchasingId after a failure)
PurchaseSettledKeepsMarker(l, ok, message) ==
  [l EXCEPT !.purchasingId = IF ok THEN NullId ELSE @,
            !.error = IF ok THEN @ ELSE PurchaseErrorMessage(message),
            !.refreshes = IF ok THEN @ + 1 ELSE @]

\* handlePurchase after the await: onProductPurchased() when the send resolved, the
\* catch block when it was rejected, and the finally block
PurchaseSettled(l, ok, message) ==
  [l EXCEPT !.purchasingId = NullId,
            !.error = IF ok THEN @ ELSE PurchaseErrorMessage(message),
            !.refreshes = IF ok THEN @ + 1 ELSE @]

\* handlePurchase up to the await: with a contract, the send is submitted; without
\* one, contract.methods throws a TypeError, caught by the catch block
HandlePurchase(productId, price) ==
  /\ list.started < MaxPurchases
  /\ LET l == [list EXCEPT !.purchasingId = productId, !.error = "",
                           !.started = @ + 1]
         before == [id |-> productId, value |-> price,
                    product |-> list.products[productId],
                    inProgress |-> \E k \in 1 .. Len(list.pending) :
                                      list.pending[k].id = productId,
                    refreshes |-> list.refreshes, error |-> list.error]
     IN  IF list.contract = Null
         THEN list' = [PurchaseSettled(l, FALSE, <<"TypeError">>)
                         EXCEPT !.last = [kind |-> "failure", before |-> before]]
         ELSE list' = [l EXCEPT
                         !.pending = Append(@, [id |-> productId, value |-> price,
                                                from |-> list.account]),
                         !.last = [kind |-> "start", before |-> before]]
  /\ UNCHANGED <<contractVars, form, app>>

\* the user clicks the Buy button of a card that shows one
ClickBuy ==
  \E card \in Cards(list) :
    /\ RenderActions(card, list.account) = "buy"
    /\ HandleBuyClick(card)
    /\ HandlePurchase(card.product.id, card.product.price)

\* a pending send settles: it resolves (ok) or is rejected with a message
SendSettles(k, ok, message) ==
  /\ k \in 1 .. Len(list.pending)
  /\ LET sent == list.pending[k]
         l == [list EXCEPT !.pending = SubSeq(@, 1, k - 1) \o SubSeq(@, k + 1, Len(@))]
         before == [id |-> sent.id, value |-> sent.value,
                    product |-> list.products[sent.id], inProgress |-> TRUE,
                    refreshes |-> list.refreshes, error |-> list.error]
     IN  list' = [PurchaseSettled(l, ok, message)
                    EXCEPT !.last = [kind |-> IF ok THEN "success" ELSE "failure",
                                     before |-> before]]
  /\ UNCHANGED <<contractVars, form, app>>

\* the Dismiss button of the error banner
DismissError ==
  /\ list.error # ""
  /\ list' = [list EXCEPT !.error = "", !.last = [kind |-> "dismiss"]]
  /\ UNCHANGED <<contractVars, form, app>>

\* the parent passes a new products array
ProductsChange(shown) ==
  /\ shown # list.products
  /\ list' = [list EXCEPT !.products = shown, !.last = [kind |-> "props"]]
  /\ UNCHANGED <<contractVars, form, app>>

InitList ==
  /\ products = [i \in Ids |-> ZeroProduct]
  /\ productCount = 0
  /\ balance = [a \in Accounts \cup {MARKET} |-> IF a = MARKET THEN 0 ELSE InitBalance]
  /\ events = <<>>
  /\ paid = [i \in Ids |-> 0]
  /\ sales = [i \in Ids |-> 0]
  /\ stack = <<>>
  /\ lastResult = NoResult
  /\ race = [on |-> FALSE, log |-> <<>>]
  /\ view = NoView
  /\ form = Unmounted /\ app = Unmounted
  /\ \E shown \in Snapshots, c \in {Null, ContractInstance} :
       list = [mounted |-> TRUE, products |-> shown, contract |-> c,
               account |-> ConnectedAccount, purchasingId |-> NullId, error |-> "",
               pending |-> <<>>, started |-> 0, refreshes |-> 0,
               last |-> [kind |-> "none"]]

NextList ==
  \/ ClickBuy
  \/ \E k \in 1 .. MaxPurchases : SendSettles(k, TRUE, <<>>)
  \/ \E k \in 1 .. MaxPurchases, m \in RejectMessages : SendSettles(k, FALSE, m)
  \/ DismissError
  \/ \E shown \in Snapshots : ProductsChange(shown)

SpecList == InitList /\ [][NextList]_vars

\* ------------------------------------------------ client: AddProduct form
\* Text is a sequence of one-character strings, so that trimming, lengths and
\* number parsing are computed and not assumed.
MinNameLength == 3
MaxNameLength == 100
MinDescriptionLength == 10
MaxDescriptionLength == 500
MaxPriceEth == 1000
WeiDecimals == 18

Web3Instance == <<"Web3">>
Fields == {"name", "description", "price"}
EmptyForm == [name |-> <<>>, description |-> <<>>, price |-> <<>>]

Repeat(c, n) == [k \in 1 .. n |-> c]

\* the values the change events carry
NameInputs ==
  { <<" ", " ">>,
    <<" ", "a", "b", " ">>,
    <<" ", "a", "b", "c", " ">>,
    Repeat("x", MaxNameLength),
    Repeat("x", MaxNameLength + 1) }

DescriptionInputs ==
  { <<" ">>,
    Repeat("d", MinDescriptionLength - 1) \o <<" ", " ">>,
    <<" ">> \o Repeat("d", MinDescriptionLength),
    Repeat("d", MaxDescriptionLength + 1) }

PriceInputs ==
  { <<"0">>,
    <<"-", "0", ".", "5">>,
    <<"a", "b", "c">>,
    <<"1", "0", "0", "0">>,
    <<"1", "0", "0", "0", ".", "1">>,
    <<"5", "x">> }

InputsOf(field) ==
  CASE field = "name" -> NameInputs
    [] field = "description" -> DescriptionInputs
    [] field = "price" -> PriceInputs

IsBlank(c) == c = " "

\* String.prototype.trim
Trim(str) ==
  IF \A k \in 1 .. Len(str) : IsBlank(str[k]) THEN <<>>
  ELSE SubSeq(str,
              CHOOSE k \in 1 .. Len(str) :
                ~IsBlank(str[k]) /\ \A j \in 1 .. k - 1 : IsBlank(str[j]),
              CHOOSE k \in 1 .. Len(str) :
                ~IsBlank(str[k]) /\ \A j \in k + 1 .. Len(str) : IsBlank(str[j]))

IsDigit(c) == c \in {"0", "1", "2", "3", "4", "5", "6", "7", "8", "9"}

DigitValue(c) ==
  CASE c = "0" -> 0 [] c = "1" -> 1 [] c = "2" -> 2 [] c = "3" -> 3
    [] c = "4" -> 4 [] c = "5" -> 5 [] c = "6" -> 6 [] c = "7" -> 7
    [] c = "8" -> 8 [] c = "9" -> 9

\* the index after the run of digits of str that starts at from
DigitRun(str, from) ==
  CHOOSE k \in from .. Len(str) + 1 :
    /\ \A j \in from .. k - 1 : IsDigit(str[j])
    /\ k = Len(str) + 1 \/ ~IsDigit(str[k])

RECURSIVE ToNumber(_)
ToNumber(digits) ==
  IF digits = <<>> THEN 0
  ELSE 10 * ToNumber(SubSeq(digits, 1, Len(digits) - 1)) + DigitValue(digits[Len(digits)])

RECURSIVE Pow10(_)
Pow10(n) == IF n = 0 THEN 1 ELSE 10 * Pow10(n - 1)

\* a number is mantissa / 10^scale, or NaN
NaN == [nan |-> TRUE, mantissa |-> 0, scale |-> 0]

\* the sign, integer digits and fraction digits that a number literal at the
\* start of str has
Literal(str) ==
  LET signed == str # <<>> /\ str[1] \in {"-", "+"}
      first  == IF signed THEN 2 ELSE 1
      dot    == DigitRun(str, first)
      hasDot == dot <= Len(str) /\ str[dot] = "."
      end    == IF hasDot THEN DigitRun(str, dot + 1) ELSE dot
  IN  [negative |-> signed /\ str[1] = "-",
       whole    |-> SubSeq(str, first, dot - 1),
       fraction |-> IF hasDot THEN SubSeq(str, dot + 1, end - 1) ELSE <<>>,
       end      |-> end]

\* parseFloat: the longest number literal the string starts with (exponents are
\* not among the inputs)
ParseFloat(str) ==
  LET lit == Literal(str)
  IN  IF lit.whole = <<>> /\ lit.fraction = <<>> THEN NaN
      ELSE [nan |-> FALSE,
            mantissa |-> (IF lit.negative THEN -1 ELSE 1) * ToNumber(lit.whole \o lit.fraction),
            scale |-> Len(lit.fraction)]

NameMessage(formData) ==
  IF Trim(formData.name) = <<>> THEN "Product name is required"
  ELSE IF Len(Trim(formData.name)) < MinNameLength
       THEN "Product name must be at least 3 characters"
  ELSE IF Len(Trim(formData.name)) > MaxNameLength
       THEN "Product name must be less than 100 characters"
  ELSE ""

DescriptionMessage(formData) ==
  IF Trim(formData.description) = <<>> THEN "Product description is required"
  ELSE IF Len(Trim(formData.description)) < MinDescriptionLength
       THEN "Description must be at least 10 characters"
  ELSE IF Len(Trim(formData.description)) > MaxDescriptionLength
       THEN "Description must be less than 500 characters"
  ELSE ""

PriceMessage(formData) ==
  IF formData.price = <<>> THEN "Price is required"
  ELSE LET priceNum == ParseFloat(formData.price)
       IN  IF priceNum.nan THEN "Price must be a valid number"
           ELSE IF priceNum.mantissa <= 0 THEN "Price must be greater than 0"
           ELSE IF priceNum.mantissa > MaxPriceEth * Pow10(priceNum.scale)
                THEN "Price seems too high (max 1000 ETH)"
           ELSE ""

FieldMessage(formData, field) ==
  CASE field = "name" -> NameMessage(formData)
    [] field = "description" -> DescriptionMessage(formData)
    [] field = "price" -> PriceMessage(formData)

\* (the name's length is checked before trimming)
ValidateFormUntrimmed(formData) ==
  LET raw(field) ==
        IF field = "name" /\ Trim(formData.name) # <<>>
             /\ Len(formData.name) >= MinNameLength /\ Len(formData.name) <= MaxNameLength
        THEN ""
        ELSE FieldMessage(formData, field)
  IN  [field \in {f \in Fields : raw(f) # ""} |-> raw(field)]

\* validateForm: the errors object, with a key for each field that has a message
ValidateForm(formData) ==
  [field \in {f \in Fields : FieldMessage(formData, f) # ""} |->
     FieldMessage(formData, field)]

\* Object.keys(validationErrors).length > 0, loading: the submit button's disabled
SubmitDisabled(f) == f.loading \/ DOMAIN f.validationErrors # {}

\* ethToWei: "0" without web3; toWei moves the point by 18 digits and throws on
\* text that is no decimal number or has more than 18 decimals
StripZeros(digits) ==
  LET nonzero == {k \in 1 .. Len(digits) : digits[k] # "0"}
  IN  IF nonzero = {} THEN <<"0">>
      ELSE SubSeq(digits, CHOOSE k \in nonzero : \A j \in nonzero : k <= j, Len(digits))

EthToWei(web3, ethAmount) ==
  IF web3 = Null THEN [threw |-> FALSE, wei |-> <<"0">>]
  ELSE LET lit == Literal(ethAmount)
       IN  IF \/ lit.end # Len(ethAmount) + 1
              \/ lit.whole = <<>> /\ lit.fraction = <<>>
              \/ Len(lit.fraction) > WeiDecimals
           THEN [threw |-> TRUE, wei |-> <<>>]
           ELSE [threw |-> FALSE,
                 wei |-> (IF lit.negative THEN <<"-">> ELSE <<>>)
                         \o StripZeros(lit.whole \o lit.fraction
                                       \o Repeat("0", WeiDecimals - Len(lit.fraction)))]

FormRejectMessages ==
  {<<"User denied">>, <<"execution reverted", InvalidName>>, <<"timeout">>}

\* the catch block of handleSubmit
AddErrorMessage(message) ==
  IF Includes(message, "User denied") THEN "Transaction cancelled by user"
  ELSE IF Includes(message, "insufficient funds") THEN "Insufficient ETH for gas fees"
  ELSE IF Includes(message, InvalidName) THEN "Product name cannot be empty"
  ELSE IF Includes(message, InvalidPrice) THEN "Product price must be greater than 0"
  ELSE "Failed to add product"

\* handleInputChange; the inputs are disabled while loading
HandleInputChange(field, value) ==
  /\ form.mounted /\ ~form.loading
  /\ value \in InputsOf(field) \cup {<<>>}
  /\ value # form.formData[field]
  /\ form' = [form EXCEPT
       !.formData = [@ EXCEPT ![field] = value],
       !.validationErrors =
          IF field \in DOMAIN @ /\ @[field] # "" THEN [@ EXCEPT ![field] = ""] ELSE @,
       !.error = "",
       !.last = [kind |-> "change", field |-> field]]
  /\ UNCHANGED <<contractVars, list, app>>

\* handleSubmit up to its await; the submit event needs the enabled button
HandleSubmit ==
  /\ form.mounted /\ ~SubmitDisabled(form)
  /\ LET errors == ValidateForm(form.formData)
         priceInWei == EthToWei(form.web3, form.formData.price)
         before == form.formData
     IN  IF DOMAIN errors # {}
         THEN form' = [form EXCEPT !.validationErrors = errors,
                                   !.last = [kind |-> "rejected", before |-> before]]
         ELSE IF priceInWei.threw \/ form.contract = Null
         THEN form' = [form EXCEPT !.validationErrors = errors,
                                   !.loading = FALSE,
                                   !.error = AddErrorMessage(<<"TypeError">>),
                                   !.last = [kind |-> "threw", before |-> before]]
         ELSE form' = [form EXCEPT !.validationErrors = errors,
                                   !.loading = TRUE,
                                   !.error = "",
                                   !.pending = <<[name |-> Trim(form.formData.name),
                                                  description |-> Trim(form.formData.description),
                                                  price |-> priceInWei.wei,
                                                  from |-> form.account]>>,
                                   !.last = [kind |-> "send", before |-> before]]
  /\ UNCHANGED <<contractVars, list, app>>

\* the send of handleSubmit settles: the rest of the try block, or the catch
\* block, and the finally block
AddSettles(ok, message) ==
  /\ form.mounted /\ form.pending # <<>>
  /\ form' = [form EXCEPT
       !.pending = <<>>,
       !.formData = IF ok THEN EmptyForm ELSE @,
       !.error = IF ok THEN @ ELSE AddErrorMessage(message),
       !.loading = FALSE,
       !.last = [kind |-> IF ok THEN "added" ELSE "failure"]]
  /\ UNCHANGED <<contractVars, list, app>>

\* handleReset; the Reset button is disabled while loading
HandleReset ==
  /\ form.mounted /\ ~form.loading
  /\ form' = [form EXCEPT !.formData = EmptyForm,
                          !.validationErrors = <<>>,
                          !.error = "",
                          !.last = [kind |-> "reset"]]
  /\ UNCHANGED <<contractVars, list, app>>

InitForm ==
  /\ products = [i \in Ids |-> ZeroProduct]
  /\ productCount = 0
  /\ balance = [a \in Accounts \cup {MARKET} |-> IF a = MARKET THEN 0 ELSE InitBalance]
  /\ events = <<>>
  /\ paid = [i \in Ids |-> 0]
  /\ sales = [i \in Ids |-> 0]
  /\ stack = <<>>
  /\ lastResult = NoResult
  /\ race = [on |-> FALSE, log |-> <<>>]
  /\ view = NoView
  /\ list = Unmounted /\ app = Unmounted
  /\ \E env \in {<<Null, Null>>, <<Null, Web3Instance>>, <<ContractInstance, Web3Instance>>} :
       form = [mounted |-> TRUE, contract |-> env[1], web3 |-> env[2],
               account |-> ConnectedAccount,
               formData |-> EmptyForm, loading |-> FALSE, error |-> "",
               validationErrors |-> <<>>, pending |-> <<>>,
               last |-> [kind |-> "none"]]

NextForm ==
  \/ \E field \in Fields : \E value \in InputsOf(field) \cup {<<>>} :
       HandleInputChange(field, value)
  \/ HandleSubmit
  \/ AddSettles(TRUE, <<>>)
  \/ \E m \in FormRejectMessages : AddSettles(FALSE, m)
  \/ HandleReset

SpecForm == InitForm /\ [][NextForm]_vars

\* ------------------------------------------------------ client: App
\* An async function in flight is a task: the function, the await it is
\* suspended at, and the contract instance its closure holds.
MaxClicks == 2

Task(fn, at, instance) == [fn |-> fn, at |-> at, instance |-> instance]

\* what getAllProducts().call() can resolve with: the ledger, empty or not
LedgerProducts ==
  { <<>>,
    <<[id |-> 1, name |-> <<"n">>, description |-> <<"d">>, price |-> 1,
       seller |-> <<"c", "d">>, sold |-> FALSE]>> }

\* Number.prototype.toString of a natural number
RECURSIVE NumberToString(_)
NumberToString(n) ==
  LET digit(d) == SubSeq(<<"0", "1", "2", "3", "4", "5", "6", "7", "8", "9">>, d + 1, d + 1)
  IN  IF n < 10 THEN digit(n) ELSE NumberToString(n \div 10) \o digit(n % 10)

\* the map of loadProducts
FormatProducts(allProducts) ==
  [k \in 1 .. Len(allProducts) |->
     [id |-> allProducts[k].id,
      name |-> allProducts[k].name,
      description |-> allProducts[k].description,
      price |-> NumberToString(allProducts[k].price),
      seller |-> allProducts[k].seller,
      sold |-> allProducts[k].sold]]

Without(tasks, k) == SubSeq(tasks, 1, k - 1) \o SubSeq(tasks, k + 1, Len(tasks))

\* initializeContract up to its first await
InitializeContract(a) ==
  [a EXCEPT !.loading = TRUE, !.error = "",
            !.tasks = Append(@, Task("initializeContract", "getContract", Null))]

\* useEffect([account]), run after a render in which account has changed
AccountEffect(a, previous) ==
  IF a.account = previous THEN a
  ELSE IF a.account # Null THEN InitializeContract(a)
  ELSE [a EXCEPT !.contract = Null, !.products = <<>>]

\* loadProducts up to its await, called from fn
LoadProducts(a, contractInstance, fn) ==
  IF contractInstance = Null THEN a
  ELSE [a EXCEPT !.loading = TRUE,
                 !.tasks = Append(@, Task(fn, "getAllProducts", contractInstance))]

IsAt(k, fn, at) ==
  /\ app.mounted
  /\ k \in 1 .. Len(app.tasks)
  /\ app.tasks[k].fn = fn
  /\ app.tasks[k].at = at

\* initializeApp after its await; getCurrentAccount resolves with the account or
\* null and never rejects
GetCurrentAccountSettles(k, currentAccount) ==
  /\ IsAt(k, "initializeApp", "getCurrentAccount")
  /\ LET done == [app EXCEPT !.tasks = Without(@, k),
                             !.account = IF currentAccount # Null THEN currentAccount ELSE @,
                             !.loading = FALSE]
     IN  app' = AccountEffect(done, app.account)
  /\ UNCHANGED <<contractVars, list, form>>

\* the Connect button of WalletConnection, shown without an account and
\* disabled while loading: handleConnectWallet up to its await
ConnectClick ==
  /\ app.mounted /\ app.account = Null /\ ~app.loading
  /\ app.clicks < MaxClicks
  /\ app' = [app EXCEPT !.loading = TRUE, !.error = "",
                        !.clicks = @ + 1,
                        !.tasks = Append(@, Task("handleConnectWallet", "connectWallet", Null))]
  /\ UNCHANGED <<contractVars, list, form>>

\* handleConnectWallet after its await
ConnectWalletSettles(k, ok) ==
  /\ IsAt(k, "handleConnectWallet", "connectWallet")
  /\ LET done == [app EXCEPT !.tasks = Without(@, k),
                             !.account = IF ok THEN ConnectedAccount ELSE @,
                             !.error = IF ok THEN @ ELSE "Failed to connect wallet",
                             !.loading = FALSE]
     IN  app' = AccountEffect(done, app.account)
  /\ UNCHANGED <<contractVars, list, form>>

\* handleDisconnectWallet, from the Disconnect button of the Header
HandleDisconnectWallet ==
  /\ app.mounted /\ app.account # Null
  /\ LET done == [app EXCEPT !.account = Null, !.contract = Null, !.products = <<>>]
     IN  app' = AccountEffect(done, app.account)
  /\ UNCHANGED <<contractVars, list, form>>

\* initializeContract after getContract: on success it calls loadProducts and
\* awaits it
GetContractSettles(k, ok) ==
  /\ IsAt(k, "initializeContract", "getContract")
  /\ LET rest == [app EXCEPT !.tasks = Without(@, k)]
     IN  app' = IF ok
                THEN LoadProducts([rest EXCEPT !.contract = ContractInstance],
                                  ContractInstance, "initializeContract")
                ELSE [rest EXCEPT
                        !.error = "Failed to connect to smart contract. Make sure it's deployed and you're on the correct network.",
                        !.loading = FALSE]
  /\ UNCHANGED <<contractVars, list, form>>

\* loadProducts after its await, and the finally block of initializeContract
\* when that is what awaits it
GetAllProductsSettles(k, ok, allProducts) ==
  /\ k \in 1 .. Len(app.tasks)
  /\ IsAt(k, app.tasks[k].fn, "getAllProducts")
  /\ app' = [app EXCEPT !.tasks = Without(@, k),
                        !.products = IF ok THEN FormatProducts(allProducts) ELSE @,
                        !.error = IF ok THEN @ ELSE "Failed to load products from blockchain",
                        !.loading = FALSE]
  /\ UNCHANGED <<contractVars, list, form>>

\* the Refresh button, shown with an account and disabled while loading
RefreshClick ==
  /\ app.mounted /\ app.account # Null /\ ~app.loading
  /\ app.clicks < MaxClicks
  /\ app' = LoadProducts([app EXCEPT !.clicks = @ + 1], app.contract, "loadProducts")
  /\ UNCHANGED <<contractVars, list, form>>

\* the Add Product / Cancel button and the Add First Product button
ToggleAddProduct ==
  /\ app.mounted /\ app.account # Null
  /\ app' = [app EXCEPT !.showAddProduct = ~@]
  /\ UNCHANGED <<contractVars, list, form>>

\* a child component starts a send: AddProduct its addProduct, ProductList a
\* buyProduct of a listed product. Its handler holds the props of this render,
\* and with them the loadProducts that closes over this render's contract.
ChildSends(child) ==
  /\ app.mounted /\ app.account # Null /\ app.contract # Null
  /\ child = "AddProduct" => app.showAddProduct
  /\ child = "ProductList" => app.products # <<>>
  /\ app.clicks < MaxClicks
  /\ app' = [app EXCEPT !.clicks = @ + 1,
                        !.tasks = Append(@, Task(child, "send", app.contract))]
  /\ UNCHANGED <<contractVars, list, form>>

\* the child's send settles; on success the child calls onProductAdded
\* (handleProductAdded) or onProductPurchased (handleProductPurchased)
ChildSendSettles(k, ok) ==
  /\ k \in 1 .. Len(app.tasks)
  /\ IsAt(k, app.tasks[k].fn, "send")
  /\ LET rest == [app EXCEPT !.tasks = Without(@, k)]
         loading == LoadProducts(rest, app.tasks[k].instance, "loadProducts")
     IN  app' = IF ~ok THEN rest
                ELSE IF app.tasks[k].fn = "AddProduct"
                THEN [loading EXCEPT !.showAddProduct = FALSE]
                ELSE loading
  /\ UNCHANGED <<contractVars, list, form>>

\* the component after mounting: the first effect has called initializeApp,
\* the second has found no account
InitApp ==
  /\ products = [i \in Ids |-> ZeroProduct]
  /\ productCount = 0
  /\ balance = [a \in Accounts \cup {MARKET} |-> IF a = MARKET THEN 0 ELSE InitBalance]
  /\ events = <<>>
  /\ paid = [i \in Ids |-> 0]
  /\ sales = [i \in Ids |-> 0]
  /\ stack = <<>>
  /\ lastResult = NoResult
  /\ race = [on |-> FALSE, log |-> <<>>]
  /\ view = NoView
  /\ list = Unmounted /\ form = Unmounted
  /\ app = [mounted |-> TRUE, account |-> Null, contract |-> Null, products |-> <<>>,
            loading |-> TRUE, error |-> "", showAddProduct |-> FALSE,
            tasks |-> <<Task("initializeApp", "getCurrentAccount", Null)>>,
            clicks |-> 0]

NextApp ==
  \/ \E k \in 1 .. MaxClicks + 1, currentAccount \in {Null, ConnectedAccount} :
       GetCurrentAccountSettles(k, currentAccount)
  \/ ConnectClick
  \/ \E k \in 1 .. MaxClicks + 1, ok \in BOOLEAN : ConnectWalletSettles(k, ok)
  \/ HandleDisconnectWallet
  \/ \E k \in 1 .. MaxClicks + 1, ok \in BOOLEAN : GetContractSettles(k, ok)
  \/ \E k \in 1 .. MaxClicks + 1, allProducts \in LedgerProducts :
       GetAllProductsSettles(k, TRUE, allProducts)
  \/ \E k \in 1 .. MaxClicks + 1 : GetAllProductsSettles(k, FALSE, <<>>)
  \/ RefreshClick
  \/ ToggleAddProduct
  \/ \E child \in {"AddProduct", "ProductList"} : ChildSends(child)
  \/ \E k \in 1 .. MaxClicks + 1, ok \in BOOLEAN : ChildSendSettles(k, ok)

SpecApp == InitApp /\ [][NextApp]_vars

\* ================================================================ claims
\* C1  No double sale: in every state of every execution, re-entrant calls and
\* reverted calls included, at most one purchase of a listing has succeeded.
NoDoubleSale ==
  \A i \in Ids :
    /\ sales[i] <= 1
    /\ Cardinality({k \in 1 .. Len(events) :
                      events[k].event = "ProductSold" /\ events[k].id = i}) <= 1

\* a purchase of a listing that has been sold once was attempted and rejected
NoDoubleSaleWitness ==
  /\ lastResult.op = "buyProduct" /\ lastResult.outcome = AlreadySold
  /\ lastResult.enough /\ ~lastResult.self
  /\ \E i \in Ids : sales[i] = 1

\* C2  When the payment to the seller or the refund to the caller fails, the purchase
\* fails with TransferFailed and is rolled back: the listing is not sold, every balance
\* is what it was before the call, and no ProductSold event is recorded.
TransferFailureRollsBack ==
  (lastResult.op = "buyProduct" /\ lastResult.outcome = TransferFailed) =>
    /\ lastResult.failedAt \in {"seller", "refund"}
    /\ ~products[lastResult.id].sold
    /\ balance = lastResult.pre.balance
    /\ events = lastResult.pre.events
    /\ World = lastResult.pre

\* the refund failed after the seller had been paid
TransferFailureWitness ==
  /\ lastResult.op = "buyProduct" /\ lastResult.outcome = TransferFailed
  /\ lastResult.failedAt = "refund"
  /\ Len(lastResult.sent) = 2
  /\ lastResult.sent[1].to = products[lastResult.id].seller

\* C3  Sold implies paid exactly once: between operations, the price of a listing has
\* been transferred to its seller once if the listing is sold and never if it is not.
SoldImpliesPaidOnce ==
  stack = <<>> =>
    \A i \in 1 .. productCount : paid[i] = IF products[i].sold THEN 1 ELSE 0

\* one listing sold and paid, and a purchase of another just failed in its transfer
SoldImpliesPaidOnceWitness ==
  /\ stack = <<>>
  /\ lastResult.op = "buyProduct" /\ lastResult.outcome = TransferFailed
  /\ ~products[lastResult.id].sold /\ paid[lastResult.id] = 0
  /\ \E j \in 1 .. productCount : products[j].sold /\ paid[j] = 1

\* C4  A purchase rejected by one of the four validation steps leaves the listing
\* table, the sold flags, the counter, the balances and the event log unchanged.
ValidationFailureChangesNothing ==
  (lastResult.op = "buyProduct" /\ lastResult.outcome \in ValidationFailures) =>
    /\ products = lastResult.pre.products
    /\ productCount = lastResult.pre.productCount
    /\ balance = lastResult.pre.balance
    /\ events = lastResult.pre.events

\* an underpaying purchase of an existing listing was rejected
ValidationFailureWitness ==
  /\ lastResult.op = "buyProduct" /\ lastResult.outcome = InsufficientPayment
  /\ lastResult.found
  /\ productCount > 0

\* C5  A successful purchase transfers exactly the price to the account that created
\* the listing and exactly value - price back to the caller when value > price (and
\* makes no second transfer when value = price); when nothing ran inside its
\* transfers, the caller is poorer by the price, the seller richer by it, and the
\* contract holds what it held before.
PurchasePaysPriceAndRefundsExcess ==
  (lastResult.op = "buyProduct" /\ lastResult.outcome = OK) =>
    LET r == lastResult
        product == r.pre.products[r.id]
        toSeller == [to |-> product.seller, amount |-> product.price]
        toCaller == [to |-> r.caller, amount |-> r.value - product.price]
    IN  /\ r.sent = IF r.value > product.price THEN <<toSeller, toCaller>> ELSE <<toSeller>>
        /\ \E k \in 1 .. Len(events) :
             /\ events[k].event = "ProductAdded"
             /\ events[k].id = r.id
             /\ events[k].seller = product.seller
        /\ ~r.reentered =>
             /\ balance[r.caller] = r.pre.balance[r.caller] - product.price
             /\ balance[product.seller] = r.pre.balance[product.seller] + product.price
             /\ balance[MARKET] = r.pre.balance[MARKET]

\* a purchase with an excess succeeded
PurchaseWitness ==
  /\ lastResult.op = "buyProduct" /\ lastResult.outcome = OK
  /\ lastResult.value > products[lastResult.id].price
  /\ Len(lastResult.sent) = 2
  /\ ~lastResult.reentered

\* C6 (as stated)  Two purchase attempts on the same listing, by any callers with any
\* values in either order: exactly one succeeds, the other fails with AlreadySold, and
\* the seller is paid once.
RaceAnyCallersAnyAmounts ==
  Len(race.log) = 2 =>
    /\ Cardinality({k \in 1 .. 2 : race.log[k].outcome = OK}) = 1
    /\ \A k \in 1 .. 2 : race.log[k].outcome \in {OK, AlreadySold}
    /\ paid[race.log[1].id] = 1

\* C6 (amended)  Purchase attempts on the same listing by callers other than its
\* seller, each with a value that covers the price and none failing in a transfer:
\* exactly one succeeds, every other fails with AlreadySold, and the seller is paid
\* once.
RaceOfValidPurchases ==
  ( /\ Len(race.log) >= 2
    /\ \A k \in 1 .. Len(race.log) :
         /\ race.log[k].enough
         /\ ~race.log[k].self
         /\ race.log[k].outcome # TransferFailed ) =>
    /\ Cardinality({k \in 1 .. Len(race.log) : race.log[k].outcome = OK}) = 1
    /\ \A k \in 1 .. Len(race.log) : race.log[k].outcome \in {OK, AlreadySold}
    /\ paid[race.log[1].id] = 1

\* two valid attempts were made: the first bought the listing, the second was refused
RaceWitness ==
  /\ Len(race.log) = 2
  /\ \A k \in 1 .. 2 : race.log[k].enough /\ ~race.log[k].self
  /\ race.log[1].outcome = OK
  /\ race.log[2].outcome = AlreadySold
  /\ paid[race.log[1].id] = 1

\* C7 (as stated)  A purchase by the seller of an existing listing always fails with
\* SelfPurchase, whatever the value and whether or not the listing is sold.
SellerAlwaysGetsSelfPurchase ==
  (lastResult.op = "buyProduct" /\ lastResult.failedAt = "require"
     /\ lastResult.found /\ lastResult.self) =>
    lastResult.outcome = SelfPurchase

\* C7 (amended)  A purchase by the seller of an existing listing always fails and
\* changes nothing; it fails with InsufficientPayment when the value is below the
\* price, else with AlreadySold when the listing is sold, else with SelfPurchase.
SellerPurchaseAlwaysRejected ==
  /\ (lastResult.op = "buyProduct" /\ lastResult.failedAt = "require"
        /\ lastResult.found /\ lastResult.self) =>
       /\ lastResult.outcome = IF ~lastResult.enough THEN InsufficientPayment
                               ELSE IF lastResult.wasSold THEN AlreadySold
                               ELSE SelfPurchase
       /\ World = lastResult.pre
  /\ (lastResult.op = "buyProduct" /\ lastResult.failedAt # "require") =>
       lastResult.caller # lastResult.pre.products[lastResult.id].seller
  /\ \A k \in 1 .. Len(stack) : stack[k].caller # products[stack[k].id].seller

\* the seller offered the price for its own unsold listing and was refused
SellerPurchaseWitness ==
  /\ lastResult.op = "buyProduct" /\ lastResult.failedAt = "require"
  /\ lastResult.found /\ lastResult.self
  /\ lastResult.enough /\ ~lastResult.wasSold
  /\ lastResult.outcome = SelfPurchase

\* C8  buyProduct reports the first failing condition in the order NotFound,
\* InsufficientPayment, AlreadySold, SelfPurchase, whichever others fail with it, and
\* gets past the validation exactly when none fails.
FirstFailingConditionReported ==
  /\ (lastResult.op = "buyProduct" /\ lastResult.failedAt = "require") =>
       /\ ~lastResult.found \/ ~lastResult.enough \/ lastResult.wasSold \/ lastResult.self
       /\ lastResult.outcome = IF ~lastResult.found THEN NotFound
                               ELSE IF ~lastResult.enough THEN InsufficientPayment
                               ELSE IF lastResult.wasSold THEN AlreadySold
                               ELSE SelfPurchase
  /\ (lastResult.op = "buyProduct" /\ lastResult.failedAt # "require") =>
       LET r == lastResult
           product == r.pre.products[r.id]
       IN  /\ r.outcome \in {OK, TransferFailed}
           /\ r.outcome = OK <=> r.failedAt = ""
           /\ r.id \in 1 .. r.pre.productCount
           /\ r.value >= product.price
           /\ ~product.sold
           /\ r.caller # product.seller

\* three conditions failed at once and the earliest of them was reported
FirstFailingConditionWitness ==
  /\ lastResult.op = "buyProduct" /\ lastResult.failedAt = "require"
  /\ lastResult.found /\ ~lastResult.enough /\ lastResult.wasSold /\ lastResult.self
  /\ lastResult.outcome = InsufficientPayment

\* C9  The sold flag of a listing is false when the listing is created, is never
\* changed by a call other than a successful purchase of that listing, and once true
\* stays true through every later call.
SoldIsTerminal ==
  /\ stack = <<>> => \A i \in 1 .. productCount : products[i].sold <=> sales[i] = 1
  /\ lastResult.op # "none" =>
       LET r == lastResult
       IN  /\ \A i \in 1 .. r.pre.productCount :
                /\ r.pre.products[i].sold => products[i].sold
                /\ products[i].sold # r.pre.products[i].sold =>
                     sales[i] = r.pre.sales[i] + 1
                /\ (products[i].sold # r.pre.products[i].sold /\ r.op = "buyProduct"
                      /\ r.failedAt # "require" /\ ~r.reentered) =>
                     r.outcome = OK /\ r.id = i
                /\ r.op = "addProduct" => products[i].sold = r.pre.products[i].sold
           /\ \A i \in (r.pre.productCount + 1) .. productCount :
                /\ r.op = "addProduct" => ~products[i].sold
                /\ products[i].sold => sales[i] = 1

\* a listing was sold, and a listing created afterwards left it sold
SoldIsTerminalWitness ==
  /\ lastResult.op = "addProduct" /\ lastResult.outcome = OK
  /\ \E i \in 1 .. lastResult.pre.productCount :
       lastResult.pre.products[i].sold /\ products[i].sold
  /\ ~products[productCount].sold

\* C10 (as stated)  A purchase of a listing made from inside a transfer of a purchase
\* of that listing fails with AlreadySold.
ReentrantPurchaseGetsAlreadySold ==
  (lastResult.op = "buyProduct" /\ lastResult.failedAt = "require" /\ lastResult.inside) =>
    lastResult.outcome = AlreadySold

\* C10 (amended)  The sold flag is true for as long as a transfer of a purchase is in
\* progress, so a purchase of the same listing made from inside the transfer observes
\* sold = true and fails: with AlreadySold when its value covers the price, with
\* InsufficientPayment when it does not.
SoldBeforeTransfer ==
  /\ \A k \in 1 .. Len(stack) : products[stack[k].id].sold
  /\ \A j, k \in 1 .. Len(stack) : j # k => stack[j].id # stack[k].id
  /\ (lastResult.op = "buyProduct" /\ lastResult.failedAt = "require" /\ lastResult.inside) =>
       /\ lastResult.wasSold
       /\ lastResult.outcome = IF lastResult.enough THEN AlreadySold ELSE InsufficientPayment
  /\ (lastResult.op = "buyProduct" /\ lastResult.failedAt # "require") =>
       \A k \in 1 .. Len(stack) : stack[k].id # lastResult.id

\* a purchase made from inside a transfer of the same listing was refused as sold
SoldBeforeTransferWitness ==
  /\ stack # <<>>
  /\ lastResult.op = "buyProduct" /\ lastResult.failedAt = "require"
  /\ lastResult.inside /\ lastResult.enough
  /\ lastResult.outcome = AlreadySold

\* C11  The ids under which a listing is stored are exactly 1 .. productCount, the
\* listing under id i carries id i, the ids handed out are 1, 2, 3, ... each once, and
\* no call ends with a smaller counter or another listing under an id than it began
\* with.
DenseIds ==
  /\ \A i \in Ids : i \in 1 .. productCount <=> products[i] # ZeroProduct
  /\ \A i \in 1 .. productCount : products[i].id = i
  /\ LET IsAdded(e) == e.event = "ProductAdded"
         added == SelectSeq(events, IsAdded)
     IN  /\ Len(added) = productCount
         /\ \A k \in 1 .. Len(added) : added[k].id = k
  /\ lastResult.op # "none" =>
       /\ productCount >= lastResult.pre.productCount
       /\ \A i \in 1 .. lastResult.pre.productCount :
            [products[i] EXCEPT !.sold = FALSE] =
              [lastResult.pre.products[i] EXCEPT !.sold = FALSE]

\* a second listing was created, next to the first
DenseIdsWitness ==
  /\ lastResult.op = "addProduct" /\ lastResult.outcome = OK
  /\ lastResult.pre.productCount = 1
  /\ productCount = 2
  /\ products[1].id = 1 /\ products[2].id = 2

\* C12  Every addProduct with a non-empty name and a price above zero succeeds, raises
\* productCount by exactly one and stores the new listing under the new productCount;
\* every other slot of the table is as it was.
CreationAddsOneListing ==
  lastResult.op = "addProduct" =>
    LET r == lastResult
    IN  /\ (Len(r.name) > 0 /\ r.price > 0) => r.outcome = OK
        /\ r.outcome = OK =>
             /\ productCount = r.pre.productCount + 1
             /\ products[productCount] =
                  Product(productCount, r.name, r.description, r.price, r.caller, FALSE)
             /\ \A i \in Ids \ {productCount} : products[i] = r.pre.products[i]

\* a listing was created after another that had been sold
CreationWitness ==
  /\ lastResult.op = "addProduct" /\ lastResult.outcome = OK
  /\ lastResult.pre.productCount = 1
  /\ products[1].sold
  /\ products[2].seller = lastResult.caller

InvalidCreationRejected ==
  lastResult.op = "addProduct" =>
    LET r == lastResult
    IN  /\ r.outcome \in InvalidInput \cup {OK}
        /\ r.outcome \in InvalidInput <=> (Len(r.name) = 0 \/ r.price = 0)
        /\ r.outcome \in InvalidInput =>
             /\ productCount = r.pre.productCount
             /\ products = r.pre.products
             /\ events = r.pre.events
             /\ World = r.pre

\* a named listing with price zero was refused next to an existing listing
InvalidCreationWitness ==
  /\ lastResult.op = "addProduct" /\ lastResult.outcome = InvalidPrice
  /\ Len(lastResult.name) > 0 /\ lastResult.price = 0
  /\ productCount = 1 /\ Len(events) = 1

\* C15  The id, name, description, price and seller of a listing are those recorded
\* at its creation, in every state, and no call, successful or failed, ends with any
\* of them changed on a listing that existed when it began.
ImmutableFields ==
  /\ \A i \in 1 .. productCount :
       \E k \in 1 .. Len(events) :
         events[k] = ProductAdded(i, products[i].name, products[i].description,
                                  products[i].price, products[i].seller)
  /\ lastResult.op # "none" =>
       \A i \in 1 .. lastResult.pre.productCount :
         /\ products[i].id = lastResult.pre.products[i].id
         /\ products[i].name = lastResult.pre.products[i].name
         /\ products[i].description = lastResult.pre.products[i].description
         /\ products[i].price = lastResult.pre.products[i].price
         /\ products[i].seller = lastResult.pre.products[i].seller

\* a purchase changed the sold flag of its listing and nothing else of it
ImmutableFieldsWitness ==
  /\ lastResult.op = "buyProduct" /\ lastResult.outcome = OK
  /\ products[lastResult.id].sold /\ ~lastResult.pre.products[lastResult.id].sold
  /\ products[lastResult.id] = [lastResult.pre.products[lastResult.id] EXCEPT !.sold = TRUE]

\* C16  Round trip: right after a successful addProduct(_name, _description, _price)
\* by a caller, getProduct of the id it was given returns that id, the same name,
\* description and price, the caller as seller, and sold = false.
CreateThenGetRoundTrip ==
  (lastResult.op = "addProduct" /\ lastResult.outcome = OK) =>
    GetProduct(World, productCount) =
      [outcome |-> OK,
       value |-> <<productCount, lastResult.name, lastResult.description,
                   lastResult.price, lastResult.caller, FALSE>>]

\* a listing with a name and a different description was created and read back
RoundTripWitness ==
  /\ lastResult.op = "addProduct" /\ lastResult.outcome = OK
  /\ lastResult.name = <<"a">> /\ lastResult.description = <<"d">>
  /\ GetProduct(World, productCount).value[2] = <<"a">>
  /\ GetProduct(World, productCount).value[3] = <<"d">>
  /\ GetProduct(World, productCount).value[5] = lastResult.caller

\* C17  Underpayment: buyProduct of an existing listing with msg.value below its price
\* fails with InsufficientPayment, whoever calls and whether or not the listing is
\* sold, and leaves every listing's sold flag (and the rest of the state) as it was;
\* no activation that got past the requires carries less than the price.
UnderpaymentRejected ==
  /\ (lastResult.op = "buyProduct" /\ lastResult.failedAt = "require"
        /\ lastResult.found /\ ~lastResult.enough) =>
       /\ lastResult.outcome = InsufficientPayment
       /\ \A i \in Ids : products[i].sold = lastResult.pre.products[i].sold
       /\ World = lastResult.pre
  /\ (lastResult.op = "buyProduct" /\ lastResult.failedAt # "require") =>
       lastResult.value >= lastResult.pre.products[lastResult.id].price
  /\ \A k \in 1 .. Len(stack) : stack[k].value >= products[stack[k].id].price

\* an unsold listing was offered less than its price by someone else than its
\* seller, and is still unsold
UnderpaymentWitness ==
  /\ lastResult.op = "buyProduct" /\ lastResult.outcome = InsufficientPayment
  /\ lastResult.found /\ ~lastResult.enough
  /\ ~lastResult.wasSold /\ ~lastResult.self
  /\ \E i \in 1 .. productCount : ~products[i].sold /\ products[i].price > 0

\* C18  Each successful addProduct appends exactly one ProductAdded event carrying
\* the new id, the name, the description, the price and the caller as seller; each
\* successful buyProduct records exactly one ProductSold event carrying the id, the
\* listing's name and price, its seller and the caller as buyer (the last event of
\* the log when the call returns, and the only addition when nothing was called from
\* inside its transfers); and whenever no call is in progress, the log holds one
\* ProductSold event for each sold listing and none for an unsold one.
OneEventPerOperation ==
  LET r == lastResult
      Sold(log, i) == {k \in 1 .. Len(log) :
                         log[k].event = "ProductSold" /\ log[k].id = i}
      Added(log, i) == {k \in 1 .. Len(log) :
                          log[k].event = "ProductAdded" /\ log[k].id = i}
  IN  /\ (r.op = "addProduct" /\ r.outcome = OK) =>
           /\ events = Append(r.pre.events,
                 [event |-> "ProductAdded", id |-> productCount, name |-> r.name,
                  description |-> r.description, price |-> r.price,
                  seller |-> r.caller])
           /\ Cardinality(Added(events, productCount)) = 1
      /\ (r.op = "buyProduct" /\ r.outcome = OK) =>
           LET product == r.pre.products[r.id]
               e == [event |-> "ProductSold", id |-> r.id, name |-> product.name,
                     price |-> product.price, seller |-> product.seller,
                     buyer |-> r.caller]
           IN  /\ events # <<>> /\ events[Len(events)] = e
               /\ Sold(r.pre.events, r.id) = {}
               /\ Sold(events, r.id) = {Len(events)}
               /\ Len(events) > Len(r.pre.events)
               /\ SubSeq(events, 1, Len(r.pre.events)) = r.pre.events
               /\ ~r.reentered => events = Append(r.pre.events, e)
      /\ stack = <<>> =>
           \A i \in Ids :
             Cardinality(Sold(events, i)) = IF products[i].sold THEN 1 ELSE 0

\* a purchase has just returned and the log holds both events of its listing, while
\* another listing is unsold and has no ProductSold event
OneEventWitness ==
  /\ lastResult.op = "buyProduct" /\ lastResult.outcome = OK
  /\ stack = <<>>
  /\ events[Len(events)].event = "ProductSold"
  /\ events[Len(events)].buyer = lastResult.caller
  /\ \E k \in 1 .. Len(events) :
        events[k].event = "ProductAdded" /\ events[k].id = lastResult.id
  /\ \E i \in 1 .. productCount : ~products[i].sold

SerialExecution ==
  LET r == lastResult
      Added(log) == SelectSeq(log, LAMBDA e : e.event = "ProductAdded")
  IN  /\ (r.op = "addProduct" /\ r.outcome = OK) =>
           LET n == r.pre.productCount + 1
           IN  World = [r.pre EXCEPT
                 !.productCount = n,
                 !.products[n] = [id |-> n, name |-> r.name,
                                  description |-> r.description, price |-> r.price,
                                  seller |-> r.caller, sold |-> FALSE],
                 !.events = Append(@, [event |-> "ProductAdded", id |-> n,
                                       name |-> r.name, description |-> r.description,
                                       price |-> r.price, seller |-> r.caller])]
      /\ (r.op \in {"addProduct", "buyProduct"} /\ r.outcome # OK) => World = r.pre
      /\ (r.op = "buyProduct" /\ r.outcome = OK /\ ~r.reentered) =>
           LET product == r.pre.products[r.id]
           IN  /\ r.id \in 1 .. r.pre.productCount
               /\ r.value >= product.price
               /\ ~product.sold
               /\ product.seller # r.caller
               /\ World = [r.pre EXCEPT
                    !.products[r.id].sold = TRUE,
                    !.balance[r.caller] = @ - product.price,
                    !.balance[product.seller] = @ + product.price,
                    !.paid[r.id] = @ + 1,
                    !.sales[r.id] = @ + 1,
                    !.events = Append(@, [event |-> "ProductSold", id |-> r.id,
                                          name |-> product.name,
                                          price |-> product.price,
                                          seller |-> product.seller,
                                          buyer |-> r.caller])]
      /\ stack = <<>> =>
           /\ Len(Added(events)) = productCount
           /\ \A k \in 1 .. productCount : Added(events)[k].id = k
           /\ balance[MARKET] = 0

\* two listings were created by different callers, then an overpaid purchase
\* completed with nothing called from inside its transfers
SerialExecutionWitness ==
  /\ lastResult.op = "buyProduct" /\ lastResult.outcome = OK
  /\ ~lastResult.reentered /\ stack = <<>>
  /\ lastResult.value > products[lastResult.id].price
  /\ productCount = 2
  /\ products[1].seller # products[2].seller

\* C21  No call observes a partially applied purchase: whenever a view function,
\* called from anywhere (the code run by a transfer of buyProduct included), reports
\* an existing listing as sold, the purchase of that listing has completed, with the
\* seller paid, the refund made and the event logged.
NoPartialPurchaseObserved ==
  /\ (view.op = "isProductAvailable" /\ ~view.stale
        /\ view.arg \in 1 .. productCount /\ ~view.result.value) =>
       /\ sales[view.arg] = 1
       /\ \A k \in 1 .. Len(stack) : stack[k].id # view.arg
  /\ (view.op = "getProduct" /\ ~view.stale /\ view.result.outcome = OK
        /\ view.result.value[6]) =>
       /\ sales[view.arg] = 1
       /\ \A k \in 1 .. Len(stack) : stack[k].id # view.arg

\* C22  getProduct(_id) reverts with "Product does not exist" exactly when _id = 0 or
\* _id > productCount; otherwise it returns, without failing, the six stored fields
\* of listing _id: id, name, description, price, seller, sold.
GetProductStrict ==
  (view.op = "getProduct" /\ ~view.stale) =>
    LET product == products[view.arg]
    IN  /\ view.result.outcome \in {NotFound, OK}
        /\ view.result.outcome = NotFound <=> (view.arg = 0 \/ view.arg > productCount)
        /\ view.result.outcome = OK =>
             /\ view.result.value = <<product.id, product.name, product.description,
                                      product.price, product.seller, product.sold>>
             /\ product.id = view.arg

\* with a listing in the table, getProduct was refused for the first id past the
\* counter
GetProductStrictWitness ==
  /\ view.op = "getProduct" /\ ~view.stale
  /\ productCount >= 1 /\ view.arg = productCount + 1
  /\ view.result.outcome = NotFound

\* C23  isProductAvailable(_id) never fails and, in every reachable state and for
\* every id, returns true exactly when 1 <= _id <= productCount and the listing is
\* not sold; so between calls it is true for a listing that no purchase has
\* succeeded on and false once one has, and it is false in every state after a
\* successful purchase.
AvailableIffUnsold ==
  /\ \A i \in Ids :
       /\ IsProductAvailable(World, i) =
            [outcome |-> OK,
             value |-> (i >= 1 /\ i <= productCount /\ ~products[i].sold)]
       /\ sales[i] >= 1 => ~IsProductAvailable(World, i).value
       /\ (stack = <<>> /\ i >= 1 /\ i <= productCount) =>
            (IsProductAvailable(World, i).value <=> sales[i] = 0)
  /\ (view.op = "isProductAvailable" /\ ~view.stale) =>
       /\ view.result.outcome = OK
       /\ view.result.value \in BOOLEAN
       /\ view.result.value <=>
            (view.arg >= 1 /\ view.arg <= productCount /\ ~products[view.arg].sold)

\* between calls, isProductAvailable said no for a listing that was bought, while
\* another listing is still available
AvailableWitness ==
  /\ view.op = "isProductAvailable" /\ ~view.stale /\ stack = <<>>
  /\ view.arg \in 1 .. productCount
  /\ ~view.result.value /\ sales[view.arg] = 1
  /\ \E i \in 1 .. productCount : IsProductAvailable(World, i).value

\* C24  getAllProducts() does not fail and returns an array of productCount elements
\* whose k-th element is the current record of listing k, sold listings included; it
\* is empty when there is no listing.
AllProductsInIdOrder ==
  (view.op = "getAllProducts" /\ ~view.stale) =>
    /\ view.result.outcome = OK
    /\ Len(view.result.value) = productCount
    /\ \A k \in 1 .. productCount :
         /\ view.result.value[k] = products[k]
         /\ view.result.value[k].id = k
    /\ productCount = 0 => view.result.value = <<>>

\* an array of two listings was returned, one of them sold
AllProductsWitness ==
  /\ view.op = "getAllProducts" /\ ~view.stale
  /\ Len(view.result.value) = 2
  /\ \E k \in 1 .. 2 : view.result.value[k].sold
  /\ \E k \in 1 .. 2 : ~view.result.value[k].sold

ViewsNeverFail ==
  LET added == Cardinality({k \in 1 .. Len(events) : events[k].event = "ProductAdded"})
  IN  /\ GetAllProducts(World).outcome = OK
      /\ GetTotalProducts(World) = [outcome |-> OK, value |-> added]
      /\ \A i \in Ids :
           /\ IsProductAvailable(World, i).outcome = OK
           /\ GetProduct(World, i).outcome \in {OK, NotFound}
      /\ (view.op \in {"getAllProducts", "getTotalProducts", "isProductAvailable"}) =>
           view.result.outcome = OK
      /\ view.op = "getProduct" => view.result.outcome \in {OK, NotFound}
      /\ (view.op = "getTotalProducts" /\ ~view.stale) =>
           /\ view.result.value = added
           /\ view.result.value = productCount

\* getTotalProducts returned 2 after two listings were created and one was sold
ViewsNeverFailWitness ==
  /\ view.op = "getTotalProducts" /\ ~view.stale /\ stack = <<>>
  /\ view.result.value = 2
  /\ \E i \in 1 .. productCount : products[i].sold

\* C28  A freshly deployed contract, and one on which no call has succeeded yet (its
\* log is empty), has productCount = 0 and no listing: getTotalProducts returns 0,
\* getAllProducts returns the empty array, and for every id isProductAvailable
\* returns false and getProduct reverts with "Product does not exist".
FreshLedgerIsEmpty ==
  events = <<>> =>
    /\ productCount = 0
    /\ \A i \in Ids : products[i] = ZeroProduct
    /\ GetTotalProducts(World) = [outcome |-> OK, value |-> 0]
    /\ GetAllProducts(World) = [outcome |-> OK, value |-> <<>>]
    /\ \A i \in Ids :
         /\ IsProductAvailable(World, i) = [outcome |-> OK, value |-> FALSE]
         /\ GetProduct(World, i).outcome = NotFound
    /\ view.op = "getTotalProducts" => view.result.value = 0
    /\ view.op = "getAllProducts" => view.result.value = <<>>
    /\ view.op = "isProductAvailable" => ~view.result.value
    /\ view.op = "getProduct" => view.result.outcome = NotFound

\* getProduct(1) was refused on a contract on which nothing has happened
FreshLedgerWitness ==
  /\ events = <<>> /\ lastResult = NoResult
  /\ view.op = "getProduct" /\ view.arg = 1
  /\ view.result.outcome = NotFound

\* C29  The contract keeps no ether: when a buyProduct call has completed, with
\* success or with any failure, the contract's balance is what it was when the call
\* was made, and it is 0 whenever no call is in progress; and in every reachable
\* state the balances of the accounts and the contract add up to the same total.
ContractKeepsNoEther ==
  /\ balance["seller"] + balance["buyer"] + balance["other"] + balance[MARKET]
       = Cardinality(Accounts) * InitBalance
  /\ \A a \in Accounts \cup {MARKET} : balance[a] >= 0
  /\ lastResult.op = "buyProduct" =>
       balance[MARKET] = lastResult.pre.balance[MARKET]
  /\ stack = <<>> => balance[MARKET] = 0

\* an overpaid purchase has completed: the seller has the price, the buyer the
\* refund and the contract nothing
ContractKeepsNoEtherWitness ==
  /\ lastResult.op = "buyProduct" /\ lastResult.outcome = OK /\ stack = <<>>
  /\ lastResult.value > products[lastResult.id].price
  /\ balance[MARKET] = 0
  /\ balance[lastResult.caller] =
       lastResult.pre.balance[lastResult.caller] - products[lastResult.id].price

\* C30  addProduct neither trims nor otherwise changes the name: it succeeds for
\* every name of length >= 1, a name of blanks included, with a price > 0, and
\* stores the name and the description exactly as given; the description may be
\* empty.
NameStoredAsGiven ==
  (lastResult.op = "addProduct" /\ Len(lastResult.name) >= 1 /\ lastResult.price > 0) =>
    /\ lastResult.outcome = OK
    /\ products[productCount].name = lastResult.name
    /\ products[productCount].description = lastResult.description
    /\ GetProduct(World, productCount).value[2] = lastResult.name

\* a listing whose name is one blank and whose description is empty was created
NameStoredAsGivenWitness ==
  /\ lastResult.op = "addProduct" /\ lastResult.outcome = OK
  /\ lastResult.name = <<" ">> /\ lastResult.description = <<>>
  /\ products[productCount].name = <<" ">>
  /\ products[productCount].description = <<>>

\* C31  A repeated purchase: buyProduct of a listing that is already sold, by the
\* buyer again or by anyone else (its seller included), with msg.value >= price,
\* fails with "Product already sold"; nothing is paid to the seller, and the value
\* sent with the call is back with the caller: every balance, the contract's
\* included, is what it was before the call.
RepeatedPurchaseRejected ==
  LET r == lastResult
  IN  (r.op = "buyProduct" /\ r.failedAt = "require"
         /\ r.found /\ r.enough /\ r.wasSold) =>
        /\ r.outcome = AlreadySold
        /\ paid = r.pre.paid
        /\ balance = r.pre.balance
        /\ World = r.pre

\* between transactions, someone else than the seller offered the price for a
\* listing whose sale was complete, and was refused
RepeatedPurchaseWitness ==
  /\ lastResult.op = "buyProduct" /\ lastResult.outcome = AlreadySold
  /\ lastResult.enough /\ ~lastResult.self /\ ~lastResult.inside
  /\ stack = <<>>
  /\ balance = lastResult.pre.balance
  /\ \E i \in 1 .. productCount : products[i].sold /\ paid[i] = 1

\* C32  The product list submits a purchase only for a product that, in the products
\* it currently shows, is not sold and whose seller is not the connected account
\* (compared without regard to case), only when no purchase of that product is
\* already in progress, and with exactly the shown price as value.
ClientBuysOnlyWhenIdle ==
  (list.mounted /\ list.last.kind = "start") =>
    LET b == list.last.before
    IN  /\ ~b.product.sold
        /\ ToLowerCase(b.product.seller) # ToLowerCase(list.account)
        /\ b.value = b.product.price
        /\ ~b.inProgress

\* C33  handlePurchase sets purchasingId to the product id when an attempt starts
\* and resets it to null when the attempt ends, after success and after every
\* failure; onProductPurchased is called once after a success and not after a
\* failure; a failure sets an error message, a success leaves the message alone.
PurchaseMarkerReset ==
  LET l == list.last
  IN  /\ (list.mounted /\ l.kind = "start") =>
           /\ list.purchasingId = l.before.id
           /\ list.error = ""
           /\ list.refreshes = l.before.refreshes
      /\ (list.mounted /\ l.kind = "success") =>
           /\ list.purchasingId = NullId
           /\ list.refreshes = l.before.refreshes + 1
           /\ list.error = l.before.error
      /\ (list.mounted /\ l.kind = "failure") =>
           /\ list.purchasingId = NullId
           /\ list.refreshes = l.before.refreshes
           /\ list.error # ""

\* a send was rejected with the revert reason of a sold product while another send
\* was still pending: the message is shown and purchasingId is null
PurchaseMarkerWitness ==
  /\ list.mounted /\ list.last.kind = "failure"
  /\ list.error = "Product already sold"
  /\ list.purchasingId = NullId
  /\ list.pending # <<>>
\* C34  The form invokes addProduct only after validateForm has accepted it:
\* whenever a send is pending, the submitted form had a trimmed name of 3 to 100
\* characters, a trimmed description of 10 to 500 characters and a price that
\* parses to a number above 0 and at most 1000, and the name and description
\* sent are the trimmed texts, the name never empty.
OnlyValidatedFormsSent ==
  (form.mounted /\ form.pending # <<>>) =>
    /\ form.last.kind = "send"
    /\ LET submitted == form.last.before
           sent == form.pending[1]
           priceNum == ParseFloat(submitted.price)
       IN  /\ Len(Trim(submitted.name)) >= MinNameLength
           /\ Len(Trim(submitted.name)) <= MaxNameLength
           /\ Len(Trim(submitted.description)) >= MinDescriptionLength
           /\ Len(Trim(submitted.description)) <= MaxDescriptionLength
           /\ ~priceNum.nan
           /\ priceNum.mantissa > 0
           /\ priceNum.mantissa <= MaxPriceEth * Pow10(priceNum.scale)
           /\ sent.name = Trim(submitted.name)
           /\ sent.description = Trim(submitted.description)
           /\ sent.name # <<>>
           /\ \A k \in {1, Len(sent.name)} : sent.name[k] # " "

\* a send is pending whose name and description were typed with blanks around
OnlyValidatedFormsSentWitness ==
  /\ form.mounted /\ form.pending # <<>>
  /\ form.last.before.name # form.pending[1].name
  /\ form.last.before.description # form.pending[1].description

\* C35  The submit button of the form is disabled only while a submission is
\* loading or while some field has a non-empty validation message, so that
\* editing the fields a failed validation named enables it again.
SubmitDisabledOnlyWithMessage ==
  (form.mounted /\ SubmitDisabled(form)) =>
    \/ form.loading
    \/ \E field \in DOMAIN form.validationErrors : form.validationErrors[field] # ""

\* C36  In the App component, whenever no account is connected and no
\* asynchronous call is pending, the contract instance held is null and the
\* product list is empty.
NoAccountNoContract ==
  (app.mounted /\ app.account = Null /\ app.tasks = <<>>) =>
    app.contract = Null /\ app.products = <<>>

\* C37  In the App component, loading is true whenever one of initializeApp,
\* initializeContract, handleConnectWallet or loadProducts is in flight, and
\* false when none of them is.
LoadingIffInFlight ==
  app.mounted =>
    (app.loading <=>
       \E k \in 1 .. Len(app.tasks) :
         app.tasks[k].fn \in {"initializeApp", "initializeContract",
                              "handleConnectWallet", "loadProducts"})

====
